---- MODULE Spec2Model ----
(***************************************************************************)
(* Model of the MCP tool-calling evaluation harness, evals/run_evaluation.py *)
(* (and the dataset row format written by evals/create_dataset.py).         *)
(*                                                                         *)
(* Python strings that the code inspects character by character            *)
(* (str.startswith, str.split, str.strip, sorted) are modelled as          *)
(* sequences of one-character strings, so that these functions are          *)
(* computed the way the code computes them.                                *)
(***************************************************************************)
EXTENDS Integers, Sequences, FiniteSets, TLC

VARIABLES
    pc,            \* position of the running script / function
    arg,           \* arguments of the pure function under evaluation
    ret,           \* its return value
    heap,          \* object store: id -> dict (the tool dicts of the catalog and copies)
    tools,         \* the catalog list: sequence of object ids
    origCatalog,   \* history: the catalog's values when it was loaded
    callLog,       \* history: kind and returned value of every transform call
    models,        \* config.MODELS_TO_EVALUATE
    threshold,     \* config.PASS_THRESHOLD as a fraction [num, den]
    dataset,       \* examples of the Phoenix dataset (expected outputs)
    results,       \* main(): results
    modelIdx,      \* main(): index of model_name in MODELS_TO_EVALUATE
    caseIdx,       \* run_experiment: index of the next example
    evaluations,   \* run_experiment: evaluation records of the running experiment
    evalLog,       \* history: the evaluation records behind each entry of results
    exitCode,      \* process exit status (-1 while running)
    failure,       \* history: which fatal start-up check failed
    providerCalls, \* history: model names a provider request was issued for
    resolved       \* history: model names an adapter (task function) was created for

vars == <<pc, arg, ret, heap, tools, origCatalog, callLog, models, threshold, dataset,
          results, modelIdx, caseIdx, evaluations, evalLog, exitCode, failure,
          providerCalls, resolved>>

fnVars == <<arg, ret>>
toolVars == <<heap, tools, origCatalog, callLog>>
mainVars == <<models, threshold, dataset, results, modelIdx, caseIdx, evaluations,
              evalLog, exitCode, failure, providerCalls, resolved>>

(***************************************************************************)
(* Bounds of the model.                                                    *)
(***************************************************************************)
MaxStrLen == 4      \* longest 'tool_calls' string tried by SpecMatch
MaxOut == 2         \* longest observed tool-name list tried by SpecMatch
MaxResp == 3        \* most tool calls / content blocks in one provider response
MaxTools == 2       \* largest tool catalog
MaxCalls == 3       \* most transform calls in a row (SpecTools)
MaxModels == 2      \* longest MODELS_TO_EVALUATE
MaxCases == 2       \* largest dataset
ThresholdDen == 2   \* PASS_THRESHOLD ranges over k / ThresholdDen

(***************************************************************************)
(* Strings as character sequences.                                         *)
(***************************************************************************)
Range(s) == {s[i] : i \in DOMAIN s}

SeqsUpTo(S, n) == UNION {[1..k -> S] : k \in 0..n}

\* ord() of the characters that occur in compared strings
Ord(c) ==
    CASE c = " " -> 32
      [] c = "," -> 44
      [] c = "a" -> 97
      [] c = "b" -> 98

Whitespace == {" "}

\* Python's str < str: lexicographic on code points, a proper prefix is smaller
StrLess(s, t) ==
    \E i \in 1..(Len(t)) :
        /\ \A j \in 1..(i - 1) : j <= Len(s) /\ s[j] = t[j]
        /\ (i > Len(s) \/ (i <= Len(s) /\ Ord(s[i]) < Ord(t[i])))

\* str.startswith(prefix)
StartsWith(s, prefix) ==
    /\ Len(s) >= Len(prefix)
    /\ SubSeq(s, 1, Len(prefix)) = prefix

\* str.strip(): leading and trailing whitespace removed
Strip(s) ==
    LET keep == {i \in DOMAIN s : s[i] \notin Whitespace}
    IN  IF keep = {} THEN <<>>
        ELSE LET lo == CHOOSE i \in keep : \A j \in keep : i <= j
                 hi == CHOOSE i \in keep : \A j \in keep : i >= j
             IN  SubSeq(s, lo, hi)

\* str.split(', '): cut at every occurrence of the separator, left to right
RECURSIVE SplitCommaSpace(_)
SplitCommaSpace(s) ==
    LET hits == {i \in 1..(Len(s) - 1) : s[i] = "," /\ s[i + 1] = " "}
    IN  IF hits = {} THEN <<s>>
        ELSE LET i == CHOOSE h \in hits : \A g \in hits : h <= g
             IN  <<SubSeq(s, 1, i - 1)>> \o SplitCommaSpace(SubSeq(s, i + 2, Len(s)))

\* ', '.join(list)
RECURSIVE JoinCommaSpace(_)
JoinCommaSpace(l) ==
    IF l = <<>> THEN <<>>
    ELSE IF Len(l) = 1 THEN l[1]
    ELSE l[1] \o <<",", " ">> \o JoinCommaSpace(Tail(l))

\* [f(x) for x in l]
RECURSIVE StripAll(_)
StripAll(l) == IF l = <<>> THEN <<>> ELSE <<Strip(Head(l))>> \o StripAll(Tail(l))

\* [x for x in l if x] on strings: the empty string is falsy
RECURSIVE DropEmpty(_)
DropEmpty(l) ==
    IF l = <<>> THEN <<>>
    ELSE (IF Head(l) = <<>> THEN <<>> ELSE <<Head(l)>>) \o DropEmpty(Tail(l))

\* sorted(list of str)
RECURSIVE Sorted(_)
Sorted(l) ==
    IF l = <<>> THEN <<>>
    ELSE LET x == Head(l)
             rest == Sorted(Tail(l))
             k == Cardinality({i \in DOMAIN rest : StrLess(rest[i], x)})
         IN  SubSeq(rest, 1, k) \o <<x>> \o SubSeq(rest, k + 1, Len(rest))

\* sorted(set(list)): what a set-based comparison would sort
RECURSIVE SortedSet(_)
SortedSet(l) ==
    IF l = <<>> THEN <<>>
    ELSE LET x == Head(l)
             rest == SortedSet(Tail(l))
             k == Cardinality({i \in DOMAIN rest : StrLess(rest[i], x)})
         IN  IF x \in Range(rest) THEN rest
             ELSE SubSeq(rest, 1, k) \o <<x>> \o SubSeq(rest, k + 1, Len(rest))

\* dict.get(key, default)
DictGet(d, key, default) == IF key \in DOMAIN d THEN d[key] ELSE default

(***************************************************************************)
(* tools_match(expected, output)                                           *)
(***************************************************************************)
\* the expected tool names parsed from the dataset's 'tool_calls' string
ExpectedTools(expected) ==
    LET tool_calls == DictGet(expected, "tool_calls", <<>>)
        expected_tools == IF tool_calls = <<>> THEN <<>> ELSE SplitCommaSpace(tool_calls)
    IN  DropEmpty(StripAll(expected_tools))

tools_match_sets(expected, output) ==
    SortedSet(ExpectedTools(expected)) = SortedSet(output)

tools_match(expected, output) ==
    Sorted(ExpectedTools(expected)) = Sorted(output)

(***************************************************************************)
(* The task functions: tool names extracted from a provider response.      *)
(***************************************************************************)
\* Optional[list]: None, or a list
NoneValue == [none |-> TRUE]
Some(v) == [none |-> FALSE, value |-> v]
\* Python truthiness of an Optional[list]: None and [] are falsy
Truthy(opt) == ~opt.none /\ opt.value # <<>>

\* create_openai_task.task after the request: the first requested tool, if any
OpenAIToolCalls(response) ==
    LET message == response.choices[1].message
    IN  IF Truthy(message.tool_calls)
        THEN <<message.tool_calls.value[1].function.name>>
        ELSE <<>>

\* for content in response.content: if content.type == 'tool_use': append(content.name)
RECURSIVE AnthropicLoop(_, _)
AnthropicLoop(content, tool_calls) ==
    IF content = <<>> THEN tool_calls
    ELSE AnthropicLoop(Tail(content),
                       IF Head(content).type = "tool_use"
                       THEN Append(tool_calls, Head(content).name)
                       ELSE tool_calls)

\* the native-tool task keeping only its first tool_use entry, as the GPT task does
AnthropicFirstOnly(response) ==
    LET all == AnthropicLoop(response.content, <<>>)
    IN  IF all = <<>> THEN <<>> ELSE <<all[1]>>

\* create_anthropic_task.task after the request: every tool_use entry, in order
AnthropicToolCalls(response) == AnthropicLoop(response.content, <<>>)

(***************************************************************************)
(* The tool catalog and its two provider projections.  Python dicts are    *)
(* mutable objects: the heap maps object ids (positions) to dicts, a list  *)
(* of tools is a sequence of ids.  JSON values inside a dict are opaque.   *)
(***************************************************************************)
\* the dicts a list of ids points to
Deref(h, ids) == [i \in DOMAIN ids |-> h[ids[i]]]

\* t = tools: a second name for the same objects, nothing copied
AliasCopy(h, ids) == [heap |-> h, ids |-> ids]

\* copy.deepcopy(tools): fresh objects with equal contents
DeepCopy(h, ids) ==
    [heap |-> h \o Deref(h, ids),
     ids |-> [i \in DOMAIN ids |-> Len(h) + i]]

\* d.pop(key) followed by d[newKey] = <popped value>
RenameKey(d, key, newKey) ==
    [k \in (DOMAIN d \ {key}) \cup {newKey} |-> IF k = newKey THEN d[key] ELSE d[k]]

\* for tool_ in t: tool_["input_schema"] = tool_.pop("inputSchema")
\* (KeyError when the key is missing: the loop stops, earlier changes stay)
RECURSIVE RenameLoop(_, _, _)
RenameLoop(h, ids, i) ==
    IF i > Len(ids) THEN [heap |-> h, raised |-> FALSE]
    ELSE IF "inputSchema" \notin DOMAIN h[ids[i]] THEN [heap |-> h, raised |-> TRUE]
    ELSE RenameLoop([h EXCEPT ![ids[i]] = RenameKey(@, "inputSchema", "input_schema")],
                    ids, i + 1)

transform_tools_to_antrophic_format(h, ids) ==
    LET t == DeepCopy(h, ids)
        done == RenameLoop(t.heap, t.ids, 1)
    IN  [heap |-> done.heap,
         raised |-> done.raised,
         value |-> IF done.raised THEN <<>> ELSE Deref(done.heap, t.ids)]

OpenAIKeys == {"name", "description", "inputSchema"}

transform_tools_to_openai_format(h, ids) ==
    LET raised == \E i \in DOMAIN ids : ~(OpenAIKeys \subseteq DOMAIN h[ids[i]])
    IN  [heap |-> h,
         raised |-> raised,
         value |-> IF raised THEN <<>>
                   ELSE [i \in DOMAIN ids |->
                            [type |-> "function",
                             function |-> [name |-> h[ids[i]]["name"],
                                           description |-> h[ids[i]]["description"],
                                           parameters |-> h[ids[i]]["inputSchema"]]]]]

\* the returned list goes into one request and is dropped: only the objects of
\* the catalog (the first Len(tools) ids) stay alive
Collect(h, ids) == SubSeq(h, 1, Len(ids))

(***************************************************************************)
(* Values of the variables a specification does not use.                   *)
(***************************************************************************)
FnIdle == arg = <<>> /\ ret = <<>>
ToolsIdle == heap = <<>> /\ tools = <<>> /\ origCatalog = <<>> /\ callLog = <<>>
MainIdle ==
    /\ models = <<>> /\ threshold = [num |-> 0, den |-> 1] /\ dataset = <<>>
    /\ results = <<>> /\ modelIdx = 0 /\ caseIdx = 0 /\ evaluations = <<>>
    /\ evalLog = <<>> /\ exitCode = -1 /\ failure = "none"
    /\ providerCalls = {} /\ resolved = {}

(***************************************************************************)
(* main(): configuration, summaries and the threshold gate.                *)
(***************************************************************************)
None == "None"      \* Python's None in a field that otherwise holds a string

GptPrefix == <<"g", "p", "t">>
ClaudePrefix == <<"c", "l", "a", "u", "d", "e">>

\* the if / elif / else on model_name.startswith(...)
AdapterDefaulting(model_name) ==
    IF StartsWith(model_name, ClaudePrefix) THEN "anthropic" ELSE "openai"

AdapterKind(model_name) ==
    IF StartsWith(model_name, GptPrefix) THEN "openai"
    ELSE IF StartsWith(model_name, ClaudePrefix) THEN "anthropic"
    ELSE "unknown"

\* the dict appended for a model of unknown type
UnknownSummary(model_name) ==
    [model_name |-> model_name, accuracy |-> [num |-> 0, den |-> 1],
     correct |-> 0, total |-> 0, error |-> "Unknown model type"]

\* evaluations_df['score'] > 0.5 (a missing score compares false)
ScoreAboveHalf(record) == ~record.errored /\ 2 * record.score > 1

CorrectCasesAnyScore(evals) ==
    Cardinality({i \in DOMAIN evals : ~evals[i].errored /\ evals[i].score >= 0})

\* len(evaluations_df[evaluations_df['score'] > 0.5])
CorrectCases(evals) ==
    Cardinality({i \in DOMAIN evals : ScoreAboveHalf(evals[i])})

\* correct_cases / total_cases if total_cases > 0 else 0, as a fraction
Accuracy(correct_cases, total_cases) ==
    IF total_cases > 0
    THEN [num |-> correct_cases, den |-> total_cases]
    ELSE [num |-> 0, den |-> 1]

\* the dict appended after an experiment; error is never assigned after its
\* initialisation (the try / except that did so is commented out)
ExperimentSummary(model_name, evals, experiment_id) ==
    LET total_cases == Len(evals)
        correct_cases == CorrectCases(evals)
    IN  [model |-> model_name, accuracy |-> Accuracy(correct_cases, total_cases),
         correct |-> correct_cases, total |-> total_cases,
         experiment_id |-> experiment_id, error |-> None]

\* a >= b on fractions with positive denominators
FracGeq(a, b) == a.num * b.den >= b.num * a.den

AllPassedUnfiltered(rs, pass_threshold) ==
    \A k \in DOMAIN rs : FracGeq(DictGet(rs[k], "accuracy", [num |-> 0, den |-> 1]),
                                 pass_threshold)

\* all(r.get('accuracy', 0) >= PASS_THRESHOLD for r in results if r.get('error') is None)
AllPassed(rs, pass_threshold) ==
    \A k \in DOMAIN rs :
        DictGet(rs[k], "error", None) = None =>
            FracGeq(DictGet(rs[k], "accuracy", [num |-> 0, den |-> 1]), pass_threshold)

\* create_dataset: one dataset row per test case
DatasetRow(test_case) ==
    [question |-> test_case.question,
     tool_calls |-> JoinCommaSpace(test_case.expected_tools),
     category |-> test_case.category]

\* the score Phoenix stores for a boolean evaluator result
BoolScore(b) == IF b THEN 1 ELSE 0

(***************************************************************************)
(* SpecMatch: tools_match applied to every bounded input.                  *)
(***************************************************************************)
MatchChars == {"a", "b", ",", " "}
ObservedNames == {<<"a">>, <<"b">>, <<"a", " ">>}
EmptyDict == [k \in {} |-> k]
ExpectedDicts == {[tool_calls |-> s] : s \in SeqsUpTo(MatchChars, MaxStrLen)} \cup {EmptyDict}

MatchInit ==
    /\ pc = "match_call"
    /\ arg \in [expected : ExpectedDicts, output : SeqsUpTo(ObservedNames, MaxOut)]
    /\ ret = <<>>
    /\ ToolsIdle /\ MainIdle

MatchCall ==
    /\ pc = "match_call"
    /\ ret' = tools_match(arg.expected, arg.output)
    /\ pc' = "match_done"
    /\ UNCHANGED <<arg, toolVars, mainVars>>

MatchNext == MatchCall

SpecMatch == MatchInit /\ [][MatchNext]_vars

\* the multiset (bag) of the elements of a list
BagOf(l) == [x \in Range(l) |-> Cardinality({i \in DOMAIN l : l[i] = x})]

\* C6: tools_match returns true exactly when the expected tool names (the
\* 'tool_calls' string split on ", ", stripped, empties dropped) and the observed
\* tool names are equal as multisets: order never matters, multiplicity does.
C6_MatchIsMultisetEquality ==
    pc = "match_done" =>
        (ret <=> BagOf(ExpectedTools(arg.expected)) = BagOf(arg.output))

\* C6 witness: expected [a, a] against observed [a] has been scored false, and
\* the case exists where a reordered pair is scored true
C6_Witness ==
    /\ pc = "match_done"
    /\ arg.expected = [tool_calls |-> <<"a", ",", " ", "a">>]
    /\ arg.output = <<(<<"a">>)>>
    /\ ret = FALSE

(***************************************************************************)
(* SpecTask: the two task functions applied to every bounded response.     *)
(***************************************************************************)
ToolNames == {<<"a">>, <<"b">>}
ToolCall(n) == [function |-> [name |-> n]]
OpenAIResponse(tc) == [choices |-> <<[message |-> [tool_calls |-> tc]]>>]
ToolUse(n) == [type |-> "tool_use", name |-> n]
TextBlock == [type |-> "text", name |-> <<>>]
ThinkingBlock == [type |-> "thinking", name |-> <<>>]
ToolCallObjects == {ToolCall(n) : n \in ToolNames}
OpenAIResponses ==
    {OpenAIResponse(tc) :
        tc \in {NoneValue} \cup {Some(l) : l \in SeqsUpTo(ToolCallObjects, MaxResp)}}
ContentBlocks == {TextBlock, ThinkingBlock} \cup {ToolUse(n) : n \in ToolNames}
AnthropicResponses == {[content |-> c] : c \in SeqsUpTo(ContentBlocks, MaxResp)}

TaskInit ==
    /\ pc = "task_call"
    /\ arg \in {[kind |-> "openai", response |-> r] : r \in OpenAIResponses}
             \cup {[kind |-> "anthropic", response |-> r] : r \in AnthropicResponses}
    /\ ret = <<>>
    /\ ToolsIdle /\ MainIdle

OpenAITask ==
    /\ pc = "task_call"
    /\ arg.kind = "openai"
    /\ ret' = OpenAIToolCalls(arg.response)
    /\ pc' = "task_done"
    /\ UNCHANGED <<arg, toolVars, mainVars>>

AnthropicTask ==
    /\ pc = "task_call"
    /\ arg.kind = "anthropic"
    /\ ret' = AnthropicToolCalls(arg.response)
    /\ pc' = "task_done"
    /\ UNCHANGED <<arg, toolVars, mainVars>>

TaskNext == OpenAITask \/ AnthropicTask

SpecTask == TaskInit /\ [][TaskNext]_vars

IsToolUse(block) == block.type = "tool_use"

\* C9: the function-call (GPT) task returns <<>> when the response requests no
\* tool and otherwise exactly the first requested name, however many were
\* requested; the native-tool (Claude) task returns the names of all tool_use
\* entries of the content, in response order, skipping every other entry.
C9_TaskExtraction ==
    pc = "task_done" =>
        /\ arg.kind = "openai" =>
              LET tc == arg.response.choices[1].message.tool_calls
              IN  IF tc.none \/ Len(tc.value) = 0
                  THEN ret = <<>>
                  ELSE ret = <<tc.value[1].function.name>>
        /\ arg.kind = "anthropic" =>
              LET uses == SelectSeq(arg.response.content, IsToolUse)
              IN  /\ Len(ret) = Len(uses)
                  /\ \A i \in DOMAIN uses : ret[i] = uses[i].name

\* C9 witness: a Claude response with text between two tool_use entries gave
\* both names, in response order
C9_Witness ==
    /\ pc = "task_done"
    /\ arg.kind = "anthropic"
    /\ arg.response.content = <<ToolUse(<<"b">>), TextBlock, ToolUse(<<"a">>)>>
    /\ ret = <<(<<"b">>), (<<"a">>)>>

(***************************************************************************)
(* SpecTools: any sequence of transform calls on one loaded catalog.       *)
(***************************************************************************)
ToolDefinitions ==
    [name : {"x", "y"}, description : {"d"}, inputSchema : {"S1", "S2"}]

ToolsInit ==
    /\ pc = "tools_loaded"
    /\ heap \in SeqsUpTo(ToolDefinitions, MaxTools)
    /\ tools = [i \in DOMAIN heap |-> i]
    /\ origCatalog = heap
    /\ callLog = <<>>
    /\ FnIdle /\ MainIdle

CallOpenAIFormat ==
    /\ pc = "tools_loaded"
    /\ Len(callLog) < MaxCalls
    /\ LET r == transform_tools_to_openai_format(heap, tools)
       IN  /\ heap' = Collect(r.heap, tools)
           /\ callLog' = Append(callLog,
                  [kind |-> "openai", raised |-> r.raised, value |-> r.value])
    /\ UNCHANGED <<pc, tools, origCatalog, fnVars, mainVars>>

CallAnthropicFormat ==
    /\ pc = "tools_loaded"
    /\ Len(callLog) < MaxCalls
    /\ LET r == transform_tools_to_antrophic_format(heap, tools)
       IN  /\ heap' = Collect(r.heap, tools)
           /\ callLog' = Append(callLog,
                  [kind |-> "anthropic", raised |-> r.raised, value |-> r.value])
    /\ UNCHANGED <<pc, tools, origCatalog, fnVars, mainVars>>

ToolsNext == CallOpenAIFormat \/ CallAnthropicFormat

SpecTools == ToolsInit /\ [][ToolsNext]_vars

FunctionCallShape(tool) ==
    [type |-> "function",
     function |-> [name |-> tool.name, description |-> tool.description,
                   parameters |-> tool.inputSchema]]

NativeShape(tool) ==
    [name |-> tool.name, description |-> tool.description,
     input_schema |-> tool.inputSchema]

\* C7: after any sequence of calls of the two transforms on the shared catalog,
\* the catalog is unchanged (every tool still has name, description and
\* inputSchema with the original values) and every call returned the projection
\* of the original catalog, one entry per tool in catalog order (the empty list
\* for the empty catalog).
C7_TransformsArePure ==
    /\ Deref(heap, tools) = origCatalog
    /\ \A c \in DOMAIN callLog :
          /\ ~callLog[c].raised
          /\ Len(callLog[c].value) = Len(origCatalog)
          /\ \A i \in DOMAIN origCatalog :
                callLog[c].value[i] =
                    IF callLog[c].kind = "openai"
                    THEN FunctionCallShape(origCatalog[i])
                    ELSE NativeShape(origCatalog[i])

\* C7 witness: on a catalog of two tools the native transform ran twice and the
\* function-call transform ran after it
C7_Witness ==
    /\ Len(tools) = 2
    /\ Len(callLog) = 3
    /\ callLog[1].kind = "anthropic"
    /\ callLog[2].kind = "anthropic"
    /\ callLog[3].kind = "openai"

(***************************************************************************)
(* Spec: one run of main().                                                *)
(***************************************************************************)
ModelNames ==
    {<<"g", "p", "t", "-", "4">>,
     <<"c", "l", "a", "u", "d", "e", "-", "3">>,
     <<"g", "e", "m", "i", "n", "i">>,
     <<"g", "p">>}

Thresholds == {[num |-> k, den |-> ThresholdDen] : k \in 0..ThresholdDen}

TestCases ==
    {[question |-> "q1", expected_tools |-> <<(<<"a">>)>>, category |-> "c"],
     [question |-> "q2", expected_tools |-> <<(<<"a">>), (<<"b">>)>>, category |-> "c"]}

Datasets == SeqsUpTo({DatasetRow(t) : t \in TestCases}, MaxCases)

MainCatalogs == {<<[name |-> "x", description |-> "d", inputSchema |-> "S1"]>>}

MainOpenAIResponses ==
    {OpenAIResponse(NoneValue),
     OpenAIResponse(Some(<<ToolCall(<<"a">>)>>)),
     OpenAIResponse(Some(<<ToolCall(<<"b">>), ToolCall(<<"a">>)>>))}

MainAnthropicResponses ==
    {[content |-> <<TextBlock>>],
     [content |-> <<TextBlock, ToolUse(<<"a">>)>>],
     [content |-> <<ToolUse(<<"b">>), ToolUse(<<"a">>)>>]}

\* the example's output dict, which Phoenix hands to the evaluator as 'expected'
Expected(example) == [tool_calls |-> example.tool_calls]

Init ==
    /\ pc = "start"
    /\ models \in SeqsUpTo(ModelNames, MaxModels)
    /\ threshold \in Thresholds
    /\ dataset = <<>>
    /\ results = <<>> /\ modelIdx = 0 /\ caseIdx = 0 /\ evaluations = <<>>
    /\ evalLog = <<>> /\ exitCode = -1 /\ failure = "none"
    /\ providerCalls = {} /\ resolved = {}
    /\ FnIdle /\ ToolsIdle

\* sys.exit(1) after a failed start-up check
FatalExit(reason) ==
    /\ pc' = "exited"
    /\ exitCode' = 1
    /\ failure' = reason

\* if not validate_env_vars(): sys.exit(1)
ValidateEnv ==
    /\ pc = "start"
    /\ \E ok \in BOOLEAN :
          IF ok THEN pc' = "load_tools" /\ UNCHANGED <<exitCode, failure>>
          ELSE FatalExit("env")
    /\ UNCHANGED <<fnVars, toolVars, models, threshold, dataset, results, modelIdx,
                   caseIdx, evaluations, evalLog, providerCalls, resolved>>

\* tools = load_tools(): sys.exit(1) when tools.json does not exist
LoadTools ==
    /\ pc = "load_tools"
    /\ \E exists \in BOOLEAN, catalog \in MainCatalogs :
          IF exists
          THEN /\ heap' = catalog
               /\ tools' = [i \in DOMAIN catalog |-> i]
               /\ origCatalog' = catalog
               /\ pc' = "get_dataset"
               /\ UNCHANGED <<exitCode, failure>>
          ELSE /\ FatalExit("tools")
               /\ UNCHANGED <<heap, tools, origCatalog>>
    /\ UNCHANGED <<fnVars, callLog, models, threshold, dataset, results, modelIdx,
                   caseIdx, evaluations, evalLog, providerCalls, resolved>>

\* a failed dataset load that is printed and not acted upon
GetDatasetNoExit ==
    /\ pc = "get_dataset"
    /\ \E ok \in BOOLEAN, ds \in Datasets :
          /\ dataset' = IF ok THEN ds ELSE <<>>
          /\ failure' = IF ok THEN failure ELSE "dataset"
          /\ results' = <<>>
          /\ modelIdx' = 1
          /\ pc' = "loop"
          /\ UNCHANGED exitCode
    /\ UNCHANGED <<fnVars, toolVars, models, threshold, caseIdx, evaluations, evalLog,
                   providerCalls, resolved>>

\* dataset = phoenix_client.get_dataset(...): sys.exit(1) when it raises;
\* then results = [] and the loop over MODELS_TO_EVALUATE starts
GetDataset ==
    /\ pc = "get_dataset"
    /\ \E ok \in BOOLEAN, ds \in Datasets :
          IF ok
          THEN /\ dataset' = ds
               /\ results' = <<>>
               /\ modelIdx' = 1
               /\ pc' = "loop"
               /\ UNCHANGED <<exitCode, failure>>
          ELSE /\ FatalExit("dataset")
               /\ UNCHANGED <<dataset, results, modelIdx>>
    /\ UNCHANGED <<fnVars, toolVars, models, threshold, caseIdx, evaluations, evalLog,
                   providerCalls, resolved>>

\* one iteration head: the task function is created, or the model is skipped
ResolveAdapter ==
    /\ pc = "loop"
    /\ modelIdx <= Len(models)
    /\ LET model_name == models[modelIdx]
       IN  IF AdapterKind(model_name) = "unknown"
           THEN /\ results' = Append(results, UnknownSummary(model_name))
                /\ evalLog' = Append(evalLog, [records |-> 0, above |-> 0])
                /\ modelIdx' = modelIdx + 1
                /\ UNCHANGED <<pc, caseIdx, evaluations, resolved>>
           ELSE /\ resolved' = resolved \cup {modelIdx}
                /\ evalLog' = Append(evalLog, [records |-> 0, above |-> 0])
                /\ evaluations' = <<>>
                /\ caseIdx' = 1
                /\ pc' = "run_experiment"
                /\ UNCHANGED <<results, modelIdx>>
    /\ UNCHANGED <<fnVars, toolVars, models, threshold, dataset, exitCode, failure,
                   providerCalls>>

\* the request's tools argument, built from the shared catalog
FormatTools(kind) ==
    IF kind = "openai"
    THEN transform_tools_to_openai_format(heap, tools)
    ELSE transform_tools_to_antrophic_format(heap, tools)

\* run_experiment, one example: the task's request is answered, the task
\* returns its tool names and tools_match scores them
RunExample ==
    /\ pc = "run_experiment"
    /\ caseIdx <= Len(dataset)
    /\ LET kind == AdapterKind(models[modelIdx])
           fmt == FormatTools(kind)
       IN  /\ ~fmt.raised
           /\ heap' = Collect(fmt.heap, tools)
           /\ \E response \in (IF kind = "openai" THEN MainOpenAIResponses
                                                 ELSE MainAnthropicResponses) :
                LET output == IF kind = "openai" THEN OpenAIToolCalls(response)
                                                  ELSE AnthropicToolCalls(response)
                    score == BoolScore(tools_match(Expected(dataset[caseIdx]), output))
                    record == [score |-> score, errored |-> FALSE]
                IN  /\ evaluations' = Append(evaluations, record)
                    /\ evalLog' = [evalLog EXCEPT ![modelIdx] =
                          [records |-> @.records + 1,
                           above |-> @.above + (IF 2 * score > 1 THEN 1 ELSE 0)]]
    /\ providerCalls' = providerCalls \cup {modelIdx}
    /\ caseIdx' = caseIdx + 1
    /\ UNCHANGED <<pc, fnVars, tools, origCatalog, callLog, models, threshold, dataset,
                   results, modelIdx, exitCode, failure, resolved>>

\* run_experiment, one example whose task raises (the provider request fails;
\* the task catches nothing).  What run_experiment does with a raising task is
\* the library's choice: it records an errored run without a score, or the
\* exception leaves run_experiment and, uncaught in main, ends the process.
RunExampleRaises ==
    /\ pc = "run_experiment"
    /\ caseIdx <= Len(dataset)
    /\ LET fmt == FormatTools(AdapterKind(models[modelIdx]))
       IN  /\ heap' = Collect(fmt.heap, tools)
           /\ providerCalls' = IF fmt.raised THEN providerCalls
                               ELSE providerCalls \cup {modelIdx}
    /\ \E isolated \in BOOLEAN :
          IF isolated
          THEN /\ evaluations' = Append(evaluations, [score |-> 0, errored |-> TRUE])
               /\ evalLog' = [evalLog EXCEPT ![modelIdx] =
                     [records |-> @.records + 1, above |-> @.above]]
               /\ caseIdx' = caseIdx + 1
               /\ UNCHANGED <<pc, exitCode>>
          ELSE /\ pc' = "raised"
               /\ exitCode' = 1
               /\ UNCHANGED <<evaluations, evalLog, caseIdx>>
    /\ UNCHANGED <<fnVars, tools, origCatalog, callLog, models, threshold, dataset,
                   results, modelIdx, failure, resolved>>

\* run_experiment or experiment.get_evaluations raises by itself (the experiment
\* platform fails): nothing in main catches it, the process ends with a traceback
ExperimentRaises ==
    /\ pc = "run_experiment"
    /\ pc' = "raised"
    /\ exitCode' = 1
    /\ UNCHANGED <<fnVars, toolVars, models, threshold, dataset, results, modelIdx,
                   caseIdx, evaluations, evalLog, failure, providerCalls, resolved>>

\* the experiment returned: the evaluations are aggregated and the summary stored
Aggregate ==
    /\ pc = "run_experiment"
    /\ caseIdx > Len(dataset)
    /\ results' = Append(results,
                         ExperimentSummary(models[modelIdx], evaluations, modelIdx))
    /\ modelIdx' = modelIdx + 1
    /\ pc' = "loop"
    /\ UNCHANGED <<fnVars, toolVars, models, threshold, dataset, caseIdx, evaluations,
                   evalLog, exitCode, failure, providerCalls, resolved>>

\* after the loop: all_passed, return 0 if all_passed else 1, sys.exit(exit_code)
Gate ==
    /\ pc = "loop"
    /\ modelIdx > Len(models)
    /\ exitCode' = IF AllPassed(results, threshold) THEN 0 ELSE 1
    /\ pc' = "returned"
    /\ UNCHANGED <<fnVars, toolVars, models, threshold, dataset, results, modelIdx,
                   caseIdx, evaluations, evalLog, failure, providerCalls, resolved>>

Next ==
    \/ ValidateEnv
    \/ LoadTools
    \/ GetDataset
    \/ ResolveAdapter
    \/ RunExample
    \/ RunExampleRaises
    \/ ExperimentRaises
    \/ Aggregate
    \/ Gate

Spec == Init /\ [][Next]_vars

(***************************************************************************)
(* Properties of main().                                                   *)
(***************************************************************************)
\* a summary's model name (the two dict shapes use different keys)
SummaryName(r) == IF "model" \in DOMAIN r THEN r.model ELSE r.model_name

\* the summary's accuracy is at least PASS_THRESHOLD
MeetsThreshold(r) == r.accuracy.num * threshold.den >= threshold.num * r.accuracy.den

\* the name starts with neither the GPT prefix nor the Claude prefix
Unrecognised(name) ==
    /\ ~(Len(name) >= 3 /\ name[1] = "g" /\ name[2] = "p" /\ name[3] = "t")
    /\ ~(Len(name) >= 6 /\ SubSeq(name, 1, 6) = <<"c", "l", "a", "u", "d", "e">>)

\* C1: main() returns 0 if and only if every summary whose error is null has
\* accuracy >= PASS_THRESHOLD (errored summaries are not part of the AND);
\* otherwise it returns 1.
C1_GateVerdict ==
    pc = "returned" =>
        /\ exitCode \in {0, 1}
        /\ exitCode = 0 <=>
              \A k \in DOMAIN results : results[k].error = None => MeetsThreshold(results[k])

\* C1 witness: main returned 1 with one non-errored summary at the threshold or
\* above and another one below it
C1_Witness ==
    /\ pc = "returned"
    /\ exitCode = 1
    /\ \E j, k \in DOMAIN results :
          /\ results[j].error = None /\ MeetsThreshold(results[j])
          /\ results[k].error = None /\ ~MeetsThreshold(results[k])

\* some configured model could not be evaluated at all: it matched no adapter, or
\* its experiment failed before any record was produced
NotEvaluatedAtAll ==
    \/ \E k \in DOMAIN results : results[k].error = "Unknown model type"
    \/ pc = "raised" /\ evaluations = <<>>

\* C2 as stated: whenever a configured model could not be evaluated at all, the
\* process exit code is 1, whatever the accuracy of the other models.
C2_Original ==
    (pc \in {"returned", "raised"} /\ NotEvaluatedAtAll) => exitCode = 1

\* C2 amended: an experiment that fails before any record ends the process with
\* exit code 1; a model that matches no adapter does not: with such a model in
\* the list main returns 1 only if a non-errored summary is below PASS_THRESHOLD,
\* and 0 otherwise.
C2_Amended ==
    /\ (pc = "raised" /\ evaluations = <<>>) => exitCode = 1
    /\ (pc = "returned" /\ \E k \in DOMAIN results : results[k].error = "Unknown model type")
          => (exitCode = 1 <=>
                 \E k \in DOMAIN results :
                     results[k].error = None /\ ~MeetsThreshold(results[k]))

\* C2 witness: main returned 0 although one model matched no adapter, and a
\* threshold above zero was met by the evaluated model
C2_Witness ==
    /\ pc = "returned"
    /\ exitCode = 0
    /\ threshold.num > 0
    /\ \E k \in DOMAIN results : results[k].error = "Unknown model type"
    /\ \E k \in DOMAIN results : results[k].error = None /\ results[k].total > 0

\* C3: a model whose name starts with neither prefix is never sent to a
\* provider; exactly one summary (accuracy 0, correct 0, total 0, error
\* "Unknown model type") is appended for it, the loop goes on with the next
\* model, and the verdict is the one the other models alone would give.
C3_UnknownModelSkipped ==
    /\ \A k \in DOMAIN models :
          Unrecognised(models[k]) =>
              /\ k \notin providerCalls
              /\ k \notin resolved
              /\ (modelIdx > k) <=> (Len(results) >= k)
              /\ Len(results) >= k =>
                    /\ SummaryName(results[k]) = models[k]
                    /\ results[k].accuracy.num = 0
                    /\ results[k].correct = 0
                    /\ results[k].total = 0
                    /\ results[k].error = "Unknown model type"
    /\ pc = "returned" =>
          /\ Len(results) = Len(models)
          /\ exitCode = 0 <=>
                \A k \in DOMAIN models :
                    ~Unrecognised(models[k]) => MeetsThreshold(results[k])

\* C3 witness: an unrecognised model came first, the model after it was
\* evaluated on two examples, and main returned
C3_Witness ==
    /\ pc = "returned"
    /\ Len(models) = 2
    /\ Unrecognised(models[1])
    /\ ~Unrecognised(models[2])
    /\ 2 \in providerCalls
    /\ results[2].total = 2
    /\ threshold.num > 0

\* C5 as stated (its safety part): no failure while evaluating a model is ever
\* thrown past the run loop, and a finished run has exactly one summary per
\* configured model, in configuration order, and a verdict.
C5_NoFailureEscapes ==
    /\ pc # "raised"
    /\ pc = "returned" =>
          /\ Len(results) = Len(models)
          /\ \A k \in DOMAIN models : SummaryName(results[k]) = models[k]
          /\ exitCode \in {0, 1}

\* C8: in every summary total is the number of evaluation records of the model,
\* correct the number of them with score > 0.5, 0 <= correct <= total, accuracy
\* is correct/total when total > 0 and 0 when total = 0, hence within [0, 1].
C8_SummaryArithmetic ==
    \A k \in DOMAIN results :
        LET r == results[k]
        IN  /\ r.total = evalLog[k].records
            /\ r.correct = evalLog[k].above
            /\ 0 <= r.correct /\ r.correct <= r.total
            /\ r.accuracy.den > 0
            /\ r.total > 0 => r.accuracy.num * r.total = r.correct * r.accuracy.den
            /\ r.total = 0 => r.accuracy.num = 0
            /\ 0 <= r.accuracy.num /\ r.accuracy.num <= r.accuracy.den

\* C8 witness: one summary aggregates two records of which one scored above 0.5,
\* and the summary of an unknown model in the same run has total 0
C8_Witness ==
    /\ \E k \in DOMAIN results :
          results[k].error = None /\ results[k].total = 2 /\ results[k].correct = 1
    /\ \E k \in DOMAIN results : results[k].total = 0

\* C10: when environment validation fails, tools.json is missing or the dataset
\* cannot be loaded, the run has ended with exit code 1 and nothing of the model
\* loop has happened: no adapter resolved, no provider call, no summary.
C10_FatalStartupAborts ==
    failure # "none" =>
        /\ pc = "exited"
        /\ exitCode = 1
        /\ ~ENABLED Next
        /\ resolved = {}
        /\ providerCalls = {}
        /\ results = <<>>
        /\ modelIdx = 0

\* C10 witness: the dataset could not be loaded, after the environment and the
\* catalog were fine, for a configuration that lists two models
C10_Witness ==
    /\ failure = "dataset"
    /\ pc = "exited"
    /\ tools # <<>>
    /\ Len(models) = 2

====
